---- MODULE Spec2Model ----
(***************************************************************************)
(* A model of the geometric and numeric core of the Lidar_process          *)
(* repository:                                                             *)
(*   core/pjfunc.py      compressDBH, circleFit                            *)
(*   core/convexhull.py  convexHull, getInsidePoints, getInsidePoints2     *)
(*   preprocessing/filter_pointcloud_by_odom.py                            *)
(*                       estimate_surface_normal, transform_to_normal_     *)
(*                       plane, filter_by_height, process_with_normal_plane*)
(*                                                                         *)
(* Coordinates and diameters are small integers, on which the floating     *)
(* point arithmetic of the code is exact or is compared only against       *)
(* values it cannot round across.  Quotients are kept as reduced           *)
(* fractions <<num, den>>, square roots as the fraction under the root.    *)
(* A Python exception is a value of the routine's status variable.         *)
(***************************************************************************)
EXTENDS Integers, Sequences, FiniteSets, TLC

\* ------------------------------------------------------------------------
\* Arithmetic helpers
\* ------------------------------------------------------------------------

Abs(n) == IF n < 0 THEN -n ELSE n

RECURSIVE GCD(_, _)
GCD(a, b) == IF b = 0 THEN a ELSE GCD(b, a % b)

\* The quotient n/d (d # 0) as a reduced fraction with positive denominator.
Frac(n, d) ==
    LET s == IF d < 0 THEN -1 ELSE 1
        g == GCD(Abs(n), Abs(d))
    IN  <<(s * n) \div g, (s * d) \div g>>

RECURSIVE SumSeq(_)
SumSeq(s) == IF s = <<>> THEN 0 ELSE Head(s) + SumSeq(Tail(s))

RECURSIVE SumSqSeq(_)
SumSqSeq(s) == IF s = <<>> THEN 0 ELSE Head(s) * Head(s) + SumSqSeq(Tail(s))

RECURSIVE MaxSeq(_)
MaxSeq(s) ==
    IF Len(s) = 1 THEN Head(s)
    ELSE LET m == MaxSeq(Tail(s)) IN IF Head(s) > m THEN Head(s) ELSE m

RECURSIVE MinSeq(_)
MinSeq(s) ==
    IF Len(s) = 1 THEN Head(s)
    ELSE LET m == MinSeq(Tail(s)) IN IF Head(s) < m THEN Head(s) ELSE m

\* A number is a fraction <<num, den>> with den > 0.  Python's None is the
\* empty tuple, and the NaN a float array holds where None was assigned is
\* the fraction 0/0.
None == <<>>
NaN == <<0, 0>>
Num(n) == <<n, 1>>

\* The arithmetic cancels common factors before it multiplies; whole numbers
\* (denominator 1) need no cancelling.
FAdd(a, b) ==
    IF a[2] = 1 /\ b[2] = 1 THEN <<a[1] + b[1], 1>>
    ELSE LET g == GCD(a[2], b[2])
         IN  Frac(a[1] * (b[2] \div g) + b[1] * (a[2] \div g), (a[2] \div g) * b[2])
FSub(a, b) ==
    IF a[2] = 1 /\ b[2] = 1 THEN <<a[1] - b[1], 1>>
    ELSE LET g == GCD(a[2], b[2])
         IN  Frac(a[1] * (b[2] \div g) - b[1] * (a[2] \div g), (a[2] \div g) * b[2])
FMul(a, b) ==
    IF a[2] = 1 /\ b[2] = 1 THEN <<a[1] * b[1], 1>>
    ELSE LET g1 == GCD(Abs(a[1]), b[2])
             g2 == GCD(Abs(b[1]), a[2])
         IN  Frac((a[1] \div g1) * (b[1] \div g2), (a[2] \div g2) * (b[2] \div g1))
FDiv(a, b) == FMul(a, Frac(b[2], b[1]))
FLt(a, b) ==
    IF a[2] = b[2] THEN a[1] < b[1]
    ELSE LET g == GCD(a[2], b[2])
         IN  a[1] * (b[2] \div g) < b[1] * (a[2] \div g)
FLe(a, b) ==
    IF a[2] = b[2] THEN a[1] <= b[1]
    ELSE LET g == GCD(a[2], b[2])
         IN  a[1] * (b[2] \div g) <= b[1] * (a[2] \div g)

\* The z-component of the cross product (b - a) x (c - a) of plane points.
Cross(a, b, c) ==
    FSub(FMul(FSub(b[1], a[1]), FSub(c[2], a[2])),
         FMul(FSub(b[2], a[2]), FSub(c[1], a[1])))

Zero == Num(0)

VARIABLES
    \* compressDBH (core/pjfunc.py)
    dat,          \* the input table: rows [id, flag, d] = columns 0, 2 and 5
    resDir,       \* whether the directory ./res exists when the call is made
    di,           \* the loop index i (0-based; di = Len(dat) after the loop)
    currT,        \* currT
    dbh,          \* the diameters collected since the last flush
    meanCS,       \* per-flush means
    sdCS,         \* per-flush population standard deviations
    rangeCS,      \* per-flush ranges
    collected,    \* history: len(dbh) at each flush, in flush order
    dbhPc,        \* "scan", "done", "FileNotFoundError" or "idle"
    dbhRet,       \* the returned table, None while there is none
    cwdFile,      \* ./compressed_dat.csv
    resFile,      \* ./res/compressed_dat.csv
    \* convexHull (core/convexhull.py)
    hIn,          \* the arguments x, y as a sequence of points <<x, y>>
    hSorted,      \* x, y after x = x[xorder], y = y[xorder]
    hX,           \* X: rows <<x, y, index>>
    hk,           \* the pass counter k of the current chain loop
    hUp,          \* BestXUp
    hPc,          \* "sort", "upper", "flip", "lower", "join", "done",
                  \* "IndexError" or "idle"
    hRet,         \* the returned bX, None while there is none
    \* getInsidePoints2 and getInsidePoints (core/convexhull.py)
    mP,           \* the polygon argument (P, bX): a sequence of points
    mPts,         \* the query points (points, targetPoints)
    wPc,          \* getInsidePoints2: "call", "done" or "idle"
    wFlags,       \* the flags getInsidePoints2 returned, None before
    sI,           \* getInsidePoints: the loop index i (0-based)
    sY,           \* the locals <<y1, y2>>, None while unbound
    conKeep,      \* the per-point crossing counts
    sPc,          \* "scan", "parity", "done", "UnboundLocalError", "idle"
    sFlags,       \* the flags getInsidePoints returned, None before
    \* process_with_normal_plane (preprocessing/filter_pointcloud_by_odom.py)
    cIn,          \* the cloud read from data_path: points <<x, y, z>>
    cOdm,         \* odm_points, the trajectory read from odom_path
    cH,           \* <<min_height, max_height>>, each a number or None
    cPlane,       \* <<normal, center>> as estimated, None before
    cTData,       \* transformed_data
    cTOdm,        \* transformed_odm
    cDat,         \* dat, the original points that are still kept
    cHull,        \* hull_vertices
    cFiltered,    \* filtered_data, None before
    cFile,        \* <<the cloud in the file at output_path>>, None if no file
    cRet,         \* the returned <<filtered_data, bounds>>, None before
    cPc,          \* "estimate", "transform", "height", "hull", "inside",
                  \* "write", "bounds", "done", an exception or "idle"
    cRun,         \* 1 for the first call, 2 for the call on its result
    cFirst,       \* the cloud the first call returned, None before
    \* circleFit (core/pjfunc.py)
    fX,           \* the argument X: a sequence of points <<x, y>>
    fPc,          \* "call", "done", "AttributeError", "ValueError", "idle"
    fRet,         \* the returned <<xc, yc, r>> (r as its square), else None
    \* transform_to_normal_plane (preprocessing/filter_pointcloud_by_odom.py)
    tP,           \* the argument points
    tN,           \* the argument normal
    tC,           \* the argument center
    tPc,          \* "call", "done", "idle"
    tRet,         \* the returned <<transformed_points, rotation_matrix>>, else None
    \* estimate_surface_normal (preprocessing/filter_pointcloud_by_odom.py)
    eIn,          \* the argument points
    eGround,      \* ground_points
    eRound,       \* the number of rounds of the loop that have run
    eBest,        \* [normal, center, inliers]: best_normal, best_center, best_inliers
    eBestRound,   \* the round that last set eBest, 0 before
    eCounts,      \* the inlier count of every round so far
    ePc,          \* "ground", "rounds", "refine", "done", an error, "idle"
    eFinal,       \* final_points of line 78 once computed, else None
    eRet          \* the returned <<final_normal, final_center>>, else None

dbhVars == <<dat, resDir, di, currT, dbh, meanCS, sdCS, rangeCS, collected,
             dbhPc, dbhRet, cwdFile, resFile>>

hullVars == <<hIn, hSorted, hX, hk, hUp, hPc, hRet>>

membVars == <<mP, mPts, wPc, wFlags, sI, sY, conKeep, sPc, sFlags>>

clipVars == <<cIn, cOdm, cH, cPlane, cTData, cTOdm, cDat, cHull, cFiltered,
              cFile, cRet, cPc, cRun, cFirst>>

fitVars == <<fX, fPc, fRet>>

rotVars == <<tP, tN, tC, tPc, tRet>>

estVars == <<eIn, eGround, eRound, eBest, eBestRound, eCounts, ePc, eFinal, eRet>>

vars == <<dbhVars, hullVars, membVars, clipVars, fitVars, rotVars, estVars>>

\* convexHull is not running.
HullIdle ==
    /\ hIn = <<>>
    /\ hSorted = <<>>
    /\ hX = <<>>
    /\ hk = 0
    /\ hUp = <<>>
    /\ hPc = "idle"
    /\ hRet = None

\* Neither membership test is running.
MembIdle ==
    /\ mP = <<>>
    /\ mPts = <<>>
    /\ wPc = "idle"
    /\ wFlags = None
    /\ sI = 0
    /\ sY = None
    /\ conKeep = <<>>
    /\ sPc = "idle"
    /\ sFlags = None

\* process_with_normal_plane is not running.
ClipIdle ==
    /\ cIn = <<>>
    /\ cOdm = <<>>
    /\ cH = <<None, None>>
    /\ cPlane = None
    /\ cTData = <<>>
    /\ cTOdm = <<>>
    /\ cDat = <<>>
    /\ cHull = <<>>
    /\ cFiltered = None
    /\ cFile = None
    /\ cRet = None
    /\ cPc = "idle"
    /\ cRun = 1
    /\ cFirst = None

\* circleFit is not running.
FitIdle ==
    /\ fX = <<>>
    /\ fPc = "idle"
    /\ fRet = None

\* transform_to_normal_plane is not running on its own.
RotIdle ==
    /\ tP = <<>>
    /\ tN = None
    /\ tC = None
    /\ tPc = "idle"
    /\ tRet = None

\* estimate_surface_normal is not running on its own.
EstIdle ==
    /\ eIn = <<>>
    /\ eGround = <<>>
    /\ eRound = 0
    /\ eBest = None
    /\ eBestRound = 0
    /\ eCounts = <<>>
    /\ ePc = "idle"
    /\ eFinal = None
    /\ eRet = None

\* ------------------------------------------------------------------------
\* compressDBH
\* ------------------------------------------------------------------------

MaxRows == 3
MaxTree == 3
Diameters == {9, 10, 11}

\* A row of the measurement table: column 0 (treeId), column 2 (the section
\* flag, 0 for the reference section) and column 5 (the diameter or None).
RowKinds ==
    {[flag |-> 0, d |-> x] : x \in {Num(v) : v \in Diameters} \cup {None}}
        \cup {[flag |-> 1, d |-> Num(10)]}

Rows == {[id |-> t, flag |-> k.flag, d |-> k.d] : t \in 1..MaxTree, k \in RowKinds}

NonDecreasing(s) == \A k \in 1..(Len(s) - 1) : s[k].id <= s[k + 1].id

DBHInputs ==
    {s \in UNION {[1..n -> Rows] : n \in 0..MaxRows} : NonDecreasing(s)}

\* np.mean(dbh)
Mean(d) == Frac(SumSeq(d), Len(d))

\* np.std(dbh): the population standard deviation (ddof = 0), kept as its
\* square, the fraction under the root.
Std(d) == Frac(Len(d) * SumSqSeq(d) - SumSeq(d) * SumSeq(d), Len(d) * Len(d))

\* The flush that fabricates zeros for a tree without data.
FlushStatsZero(d) ==
    IF Len(d) > 0
    THEN [mean |-> Mean(d), sd |-> Std(d), range |-> Num(MaxSeq(d) - MinSeq(d))]
    ELSE [mean |-> Num(0), sd |-> Num(0), range |-> Num(0)]

\* Lines 106-116 and 124-133: what one flush appends to meanCS, sdCS, rangeCS.
FlushStats(d) ==
    IF Len(d) > 0
    THEN [mean |-> Mean(d), sd |-> Std(d), range |-> Num(MaxSeq(d) - MinSeq(d))]
    ELSE [mean |-> None, sd |-> None, range |-> None]

\* The tree counter set to the id of the row that caused the flush.
TreeOfRow(t, id) == id

\* Line 118: currT += 1, whatever the id of the row is.
NextTree(t, id) == t + 1

\* getCI (lines 143-147): 1.96*sdcs/np.sqrt(3), kept as its square.
getCI(sdcs) ==
    IF sdcs # None
    THEN Frac(196 * 196 * sdcs[1], 100 * 100 * 3 * sdcs[2])
    ELSE sdcs

\* Assignment into the float table: None becomes NaN.
ToFloat(v) == IF v = None THEN NaN ELSE v

\* Lines 163-171: the table, one row <<mean, CI>> per entry of meanCS.
Table(means, sds) ==
    [k \in 1..Len(means) |-> <<ToFloat(means[k]), ToFloat(getCI(sds[k]))>>]

DBHStart ==
    /\ dat \in DBHInputs
    /\ resDir \in BOOLEAN
    /\ di = 0
    /\ currT = 1
    /\ dbh = <<>>
    /\ meanCS = <<>>
    /\ sdCS = <<>>
    /\ rangeCS = <<>>
    /\ collected = <<>>
    /\ dbhPc = "scan"
    /\ dbhRet = None
    /\ cwdFile = None
    /\ resFile = None

\* compressDBH is not running.
DBHIdle ==
    /\ dat = <<>>
    /\ resDir = FALSE
    /\ di = 0
    /\ currT = 1
    /\ dbh = <<>>
    /\ meanCS = <<>>
    /\ sdCS = <<>>
    /\ rangeCS = <<>>
    /\ collected = <<>>
    /\ dbhPc = "idle"
    /\ dbhRet = None
    /\ cwdFile = None
    /\ resFile = None

\* One iteration of the loop of lines 103-123.
DBHRow ==
    /\ dbhPc = "scan"
    /\ di < Len(dat)
    /\ LET row == dat[di + 1]
           flush == row.id # currT
           st == FlushStats(dbh)
           kept == IF flush THEN <<>> ELSE dbh
       IN  /\ meanCS' = IF flush THEN Append(meanCS, st.mean) ELSE meanCS
           /\ sdCS' = IF flush THEN Append(sdCS, st.sd) ELSE sdCS
           /\ rangeCS' = IF flush THEN Append(rangeCS, st.range) ELSE rangeCS
           /\ collected' = IF flush THEN Append(collected, Len(dbh)) ELSE collected
           /\ currT' = IF flush THEN NextTree(currT, row.id) ELSE currT
           /\ dbh' = IF row.flag = 0 /\ row.d # None THEN Append(kept, row.d[1]) ELSE kept
    /\ di' = di + 1
    /\ UNCHANGED <<dat, resDir, dbhPc, dbhRet, cwdFile, resFile>>
    /\ UNCHANGED <<hullVars, membVars, clipVars, fitVars, rotVars, estVars>>

\* Lines 124-178: the last flush, the table, the file and the return.
DBHFinish ==
    /\ dbhPc = "scan"
    /\ di = Len(dat)
    /\ LET st == FlushStats(dbh)
           means == Append(meanCS, st.mean)
           sds == Append(sdCS, st.sd)
           t == Table(means, sds)
       IN  /\ meanCS' = means
           /\ sdCS' = sds
           /\ rangeCS' = Append(rangeCS, st.range)
           /\ collected' = Append(collected, Len(dbh))
           /\ dbh' = <<>>
           /\ IF Len(means) # currT
              THEN \* compressDat[:,0] = meanCS cannot broadcast (line 170)
                   /\ UNCHANGED <<cwdFile, resFile, dbhRet>>
                   /\ dbhPc' = "ValueError"
              ELSE IF resDir
              THEN \* np.savetxt, then shutil.move into ./res (lines 172-176)
                   /\ cwdFile' = None
                   /\ resFile' = t
                   /\ dbhRet' = t
                   /\ dbhPc' = "done"
              ELSE \* shutil.move has no directory to move the file into
                   /\ cwdFile' = t
                   /\ resFile' = None
                   /\ dbhRet' = None
                   /\ dbhPc' = "FileNotFoundError"
    /\ UNCHANGED <<dat, resDir, di, currT>>
    /\ UNCHANGED <<hullVars, membVars, clipVars, fitVars, rotVars, estVars>>

NextDBH == DBHRow \/ DBHFinish

InitDBH == DBHStart /\ HullIdle /\ MembIdle /\ ClipIdle /\ FitIdle /\ RotIdle /\ EstIdle

SpecDBH == InitDBH /\ [][NextDBH]_vars

\* ---- properties of compressDBH -----------------------------------------

\* The diameters of the valid rows of tree t, in input order.
RECURSIVE ValidDiams(_, _)
ValidDiams(s, t) ==
    IF s = <<>> THEN <<>>
    ELSE LET r == Head(s)
             rest == ValidDiams(Tail(s), t)
         IN  IF r.id = t /\ r.flag = 0 /\ r.d # None THEN <<r.d[1]>> \o rest ELSE rest

\* The scan is over (the call returned or failed while saving).
DBHOver == dbhPc \in {"done", "FileNotFoundError", "ValueError"}

\* The table as saved, wherever the file ended up.
SavedTable == IF resFile # None THEN resFile ELSE cwdFile

\* The ids step by at most one from 1: tree t is flushed at position t.
Contiguous(s) ==
    /\ s # <<>> => s[1].id <= 2
    /\ \A k \in 1..(Len(s) - 1) : s[k + 1].id - s[k].id <= 1

\* C5 (as claimed): for every tree t with valid rows, the mean, the
\* population standard deviation and the range at output position t are
\* those of exactly the diameters of the valid rows whose treeId is t,
\* whatever ids the non-decreasing input skips.
C5_RowsAttributedToTheirTree ==
    DBHOver =>
        \A t \in 1..MaxTree :
            LET d == ValidDiams(dat, t)
            IN  d # <<>> =>
                    /\ t <= Len(meanCS)
                    /\ meanCS[t] = Mean(d)
                    /\ sdCS[t] = Std(d)
                    /\ rangeCS[t] = Num(MaxSeq(d) - MinSeq(d))

\* C6 (as claimed): the half-width reported for a tree is 1.96*sd/sqrt(n)
\* with n the number of diameters collected for that tree (squared:
\* 1.96^2 * sd^2 / n).
C6_HalfWidthUsesSampleSize ==
    dbhPc = "done" =>
        \A k \in 1..Len(collected) :
            collected[k] > 0 =>
                dbhRet[k][2] =
                    Frac(196 * 196 * sdCS[k][1], 100 * 100 * collected[k] * sdCS[k][2])

\* C7: a tree for which no valid diameter was collected has None for mean,
\* standard deviation, range and confidence interval, and its row of the
\* returned and of the saved table is <<NaN, NaN>>, never a number; where
\* the ids are contiguous this is every tree without a valid row in the
\* input, and the empty input gives the single row <<NaN, NaN>>.
C7_NoDataMarker ==
    DBHOver =>
        /\ \A k \in 1..Len(collected) :
               collected[k] = 0 =>
                   /\ meanCS[k] = None
                   /\ sdCS[k] = None
                   /\ rangeCS[k] = None
                   /\ getCI(sdCS[k]) = None
                   /\ SavedTable[k] = <<NaN, NaN>>
                   /\ dbhRet # None => dbhRet[k] = <<NaN, NaN>>
        /\ Contiguous(dat) =>
               \A t \in 1..Len(meanCS) :
                   ValidDiams(dat, t) = <<>> => SavedTable[t] = <<NaN, NaN>>
        /\ dat = <<>> => SavedTable = <<(<<NaN, NaN>>)>>

\* C7 witness: a returned table of three trees where the middle and the
\* last tree have rows but no valid diameter.
C7_Witness ==
    /\ dbhPc = "done"
    /\ Len(dat) = 3
    /\ collected = <<1, 0, 0>>
    /\ dbhRet[1] # <<NaN, NaN>>
    /\ dbhRet[2] = <<NaN, NaN>>
    /\ dbhRet[3] = <<NaN, NaN>>

\* ------------------------------------------------------------------------
\* convexHull
\* ------------------------------------------------------------------------

GridMax == 2
MaxPts == 5

Coords == 0..GridMax
Grid == {<<Num(a), Num(b)>> : a \in Coords, b \in Coords}

LexLess(p, q) == FLt(p[1], q[1]) \/ (p[1] = q[1] /\ FLt(p[2], q[2]))

\* A set of plane points as a sequence, in lexicographic order.
RECURSIVE SetToSeq(_)
SetToSeq(S) ==
    IF S = {} THEN <<>>
    ELSE LET m == CHOOSE p \in S : \A q \in S \ {p} : LexLess(p, q)
         IN  <<m>> \o SetToSeq(S \ {m})

HullInputs == {SetToSeq(S) : S \in {T \in SUBSET Grid : Cardinality(T) <= MaxPts}}

\* np.argsort(x) (line 15): the index orders that sort x ascending; the
\* order among equal x is the sort routine's choice.
RECURSIVE ArgSorts(_, _)
ArgSorts(x, I) ==
    IF I = {} THEN {<<>>}
    ELSE LET lows == {i \in I : \A j \in I : FLe(x[i], x[j])}
         IN  UNION {{<<i>> \o r : r \in ArgSorts(x, I \ {i})} : i \in lows}

\* project (lines 6-8): the height at x3 of the line through x1 and x2.
project(x1, x2, x3) ==
    FAdd(x1[2], FMul(FDiv(FSub(x2[2], x1[2]), FSub(x2[1], x1[1])), FSub(x3[1], x1[1])))

\* The test of lines 24-26 and 32 (and 58-60, 66): the new point c lies below
\* the line projected from the last two chain points a, b, or, where a and b
\* share their x, below b.
Below(a, b, c) ==
    IF b[1] # a[1] THEN FLt(c[2], project(a, b, c)) ELSE FLt(c[2], b[2])

\* L.pop(-1); L.append(i)
PopAppend(L, i) == Append(SubSeq(L, 1, Len(L) - 1), i)

\* The upper scan (lines 22-36) from row i on: L holds 1-based row numbers.
RECURSIVE ScanUp(_, _, _)
ScanUp(X, L, i) ==
    IF i > Len(X) THEN L
    ELSE IF Below(X[L[Len(L) - 1]], X[L[Len(L)]], X[i])
         THEN ScanUp(X, Append(L, i), i + 1)
         ELSE ScanUp(X, PopAppend(L, i), i + 1)

\* The lower scan (lines 56-70) from row i on.
RECURSIVE ScanDown(_, _, _)
ScanDown(X, L, i) ==
    IF i > Len(X) THEN L
    ELSE IF Below(X[L[Len(L) - 1]], X[L[Len(L)]], X[i])
         THEN ScanDown(X, PopAppend(L, i), i + 1)
         ELSE ScanDown(X, Append(L, i), i + 1)

\* X = X[L] left out: every row is kept whatever the scan chose.
TakeAll(X, L) == X

\* X[L]
Take(X, L) == [k \in 1..Len(L) |-> X[L[k]]]

\* np.flip
Flip(s) == [k \in 1..Len(s) |-> s[Len(s) + 1 - k]]

\* Lines 9-12 and 48-51: X with columns x, y and the row number 0..N-1.
WithIndex(pts) == [k \in 1..Len(pts) |-> <<pts[k][1], pts[k][2], k - 1>>]

HullStart ==
    /\ hIn \in HullInputs
    /\ hSorted = <<>>
    /\ hX = WithIndex(hIn)
    /\ hk = 0
    /\ hUp = <<>>
    /\ hPc = "sort"
    /\ hRet = None

\* Lines 15-20: the sort by x.
HullSort ==
    /\ hPc = "sort"
    /\ \E xorder \in ArgSorts([k \in 1..Len(hIn) |-> hIn[k][1]], 1..Len(hIn)) :
          /\ hSorted' = Take(hIn, xorder)
          /\ hX' = Take(hX, xorder)
    /\ hk' = 0
    /\ hPc' = "upper"
    /\ UNCHANGED <<hIn, hUp, hRet>>
    /\ UNCHANGED <<dbhVars, membVars, clipVars, fitVars, rotVars, estVars>>

\* One pass of the loop of lines 21-42.
HullUpperPass ==
    /\ hPc = "upper"
    /\ hk < Len(hIn)
    /\ LET L == ScanUp(hX, <<1, 2>>, 3)
       IN  IF Len(L) = Len(hX)
           THEN hPc' = "flip" /\ UNCHANGED <<hX, hk>>
           ELSE IF \E k \in 1..Len(L) : L[k] > Len(hX)
           THEN hPc' = "IndexError" /\ UNCHANGED <<hX, hk>>
           ELSE hX' = Take(hX, L) /\ hk' = hk + 1 /\ UNCHANGED hPc
    /\ UNCHANGED <<hIn, hSorted, hUp, hRet>>
    /\ UNCHANGED <<dbhVars, membVars, clipVars, fitVars, rotVars, estVars>>

\* Lines 44-54, after the break or after N passes.
HullFlip ==
    /\ hPc = "flip" \/ (hPc = "upper" /\ hk = Len(hIn))
    /\ hUp' = hX
    /\ hX' = WithIndex(Flip(hSorted))
    /\ hk' = 0
    /\ hPc' = "lower"
    /\ UNCHANGED <<hIn, hSorted, hRet>>
    /\ UNCHANGED <<dbhVars, membVars, clipVars, fitVars, rotVars, estVars>>

\* One pass of the loop of lines 55-76.
HullLowerPass ==
    /\ hPc = "lower"
    /\ hk < Len(hIn)
    /\ LET L == ScanDown(hX, <<1, 2>>, 3)
       IN  IF Len(L) = Len(hX)
           THEN hPc' = "join" /\ UNCHANGED <<hX, hk>>
           ELSE IF \E k \in 1..Len(L) : L[k] > Len(hX)
           THEN hPc' = "IndexError" /\ UNCHANGED <<hX, hk>>
           ELSE hX' = Take(hX, L) /\ hk' = hk + 1 /\ UNCHANGED hPc
    /\ UNCHANGED <<hIn, hSorted, hUp, hRet>>
    /\ UNCHANGED <<dbhVars, membVars, clipVars, fitVars, rotVars, estVars>>

\* Lines 79-82, after the break or after N passes.
HullJoin ==
    /\ hPc = "join" \/ (hPc = "lower" /\ hk = Len(hIn))
    /\ hRet' = hUp \o SubSeq(hX, 2, Len(hX))
    /\ hPc' = "done"
    /\ UNCHANGED <<hIn, hSorted, hX, hk, hUp>>
    /\ UNCHANGED <<dbhVars, membVars, clipVars, fitVars, rotVars, estVars>>

NextHull == HullSort \/ HullUpperPass \/ HullFlip \/ HullLowerPass \/ HullJoin

InitHull == HullStart /\ DBHIdle /\ MembIdle /\ ClipIdle /\ FitIdle /\ RotIdle /\ EstIdle

SpecHull == InitHull /\ [][NextHull]_vars

\* ---- properties of convexHull -------------------------------------------

XY(row) == <<row[1], row[2]>>

VertexSet(P) == {XY(P[k]) : k \in 1..Len(P)}

\* The corners of the bounding box of a point sequence.
Corners(pts) ==
    LET xs == {pts[k][1] : k \in 1..Len(pts)}
        ys == {pts[k][2] : k \in 1..Len(pts)}
        x0 == CHOOSE v \in xs : \A w \in xs : FLe(v, w)
        x1 == CHOOSE v \in xs : \A w \in xs : FLe(w, v)
        y0 == CHOOSE v \in ys : \A w \in ys : FLe(v, w)
        y1 == CHOOSE v \in ys : \A w \in ys : FLe(w, v)
    IN  {<<x0, y0>>, <<x0, y1>>, <<x1, y0>>, <<x1, y1>>}

\* The four corners of a square and points strictly inside it.
SquareInput(pts) ==
    /\ pts # <<>>
    /\ LET cs == Corners(pts)
           lo == CHOOSE c \in cs : \A d \in cs : FLe(c[1], d[1]) /\ FLe(c[2], d[2])
           hi == CHOOSE c \in cs : \A d \in cs : FLe(d[1], c[1]) /\ FLe(d[2], c[2])
       IN  /\ Cardinality(cs) = 4
           /\ FSub(hi[1], lo[1]) = FSub(hi[2], lo[2])
           /\ cs \subseteq VertexSet(pts)
           /\ \A p \in VertexSet(pts) \ cs :
                  /\ FLt(lo[1], p[1]) /\ FLt(p[1], hi[1])
                  /\ FLt(lo[2], p[2]) /\ FLt(p[2], hi[2])

\* The closed vertex sequence P turns the same way at every vertex.
ConsistentWinding(P) ==
    LET n == Len(P) - 1
        turn(k) == Cross(XY(P[k]), XY(P[k + 1]), XY(P[IF k + 1 = n + 1 THEN 2 ELSE k + 2]))
    IN  /\ n >= 3
        /\ XY(P[1]) = XY(P[n + 1])
        /\ \/ \A k \in 1..n : FLt(Zero, turn(k))
           \/ \A k \in 1..n : FLt(turn(k), Zero)

\* C2 (as claimed): on the corners of a square plus interior points the
\* returned polygon has exactly the four corners as vertices, in one
\* winding direction, whatever order the sort gives points of equal x.
C2_SquareHull ==
    (hPc = "done" /\ SquareInput(hIn)) =>
        /\ VertexSet(hRet) = Corners(hIn)
        /\ ConsistentWinding(hRet)

\* ------------------------------------------------------------------------
\* getInsidePoints2 and getInsidePoints
\* ------------------------------------------------------------------------

\* p -> q is an edge of the convex hull of S with the rest of S on its left
\* (counterclockwise); points of S on the segment itself are no vertices.
HullEdge(S, p, q) ==
    /\ p # q
    /\ \A r \in S \ {p, q} :
          \/ FLt(Zero, Cross(p, q, r))
          \/ /\ Cross(p, q, r) = Zero
             /\ FLt(Zero, FAdd(FMul(FSub(r[1], p[1]), FSub(q[1], r[1])),
                               FMul(FSub(r[2], p[2]), FSub(q[2], r[2]))))

HullVerts(S) == {p \in S : \E q \in S : HullEdge(S, p, q)}

Collinear(S) == \A p \in S, q \in S, r \in S : Cross(p, q, r) = Zero

\* The hull vertices of S counterclockwise, n of them from p on.
RECURSIVE CCWFrom(_, _, _)
CCWFrom(S, p, n) ==
    IF n = 0 THEN <<>>
    ELSE <<p>> \o CCWFrom(S, CHOOSE q \in S : HullEdge(S, p, q), n - 1)

\* The vertex sequences of the convex polygons on the grid: from any vertex,
\* counterclockwise or clockwise, open or closed (first vertex repeated).
Polygons ==
    LET sets == {S \in SUBSET Grid :
                    /\ Cardinality(S) >= 3
                    /\ Cardinality(S) <= MaxPts
                    /\ ~Collinear(S)
                    /\ HullVerts(S) = S}
        ccw(S, p) == CCWFrom(S, p, Cardinality(S))
        dir(P, cw) == IF cw THEN Flip(P) ELSE P
        close(P, c) == IF c THEN Append(P, P[1]) ELSE P
    IN  {close(dir(ccw(S, p), cw), c) : <<S, p>> \in {sp \in sets \X Grid : sp[2] \in sp[1]},
                                         cw \in BOOLEAN, c \in BOOLEAN}

\* Lines 152-155: crossVector < 0 for one query point and the edge p1 -> p2.
CrossNegative(pt, p1, p2) ==
    FLt(FSub(FMul(FSub(pt[1], p1[1]), FSub(p2[2], p1[2])),
             FMul(FSub(pt[2], p1[2]), FSub(p2[1], p1[1]))),
        Zero)

\* getInsidePoints2 (lines 144-157): pLabel counts, over i in range(N-1), the
\* edges P[i] -> P[i+1] with crossVector < 0; the flag is pLabel == N-1.
getInsidePoints2(points, P) ==
    [k \in 1..Len(points) |->
        Cardinality({i \in 1..(Len(P) - 1) : CrossNegative(points[k], P[i], P[i + 1])})
            = Len(P) - 1]

MembStart ==
    /\ mP \in Polygons
    /\ mPts = SetToSeq(Grid)
    /\ wPc = "call"
    /\ wFlags = None
    /\ sI = 0
    /\ sY = None
    /\ conKeep = [k \in 1..Len(mPts) |-> 0]
    /\ sPc = "scan"
    /\ sFlags = None

\* The call getInsidePoints2(mPts, mP).
Winding ==
    /\ wPc = "call"
    /\ wFlags' = getInsidePoints2(mPts, mP)
    /\ wPc' = "done"
    /\ UNCHANGED <<mP, mPts, sI, sY, conKeep, sPc, sFlags>>
    /\ UNCHANGED <<dbhVars, hullVars, clipVars, fitVars, rotVars, estVars>>

FMin(a, b) == IF FLt(b, a) THEN b ELSE a

\* Lines 118-135: the counts one edge adds, with (x1,y1) its lower end.
EdgeCount(pts, x1, y1, x2, y2) ==
    [k \in 1..Len(pts) |->
        IF /\ FLe(y1, pts[k][2])
           /\ FLt(pts[k][2], y2)
           /\ FLt(pts[k][1],
                  FAdd(x1, FMul(FDiv(FSub(x2, x1), FSub(y2, y1)), FSub(pts[k][2], y1))))
        THEN 1 ELSE 0]

\* Lines 105-109: the counts of the branch for horizontal edges.
HorizontalCount(pts, x1, y1, x2) ==
    [k \in 1..Len(pts) |->
        IF FLt(pts[k][1], FMin(x1, x2)) /\ pts[k][2] = y1 THEN 1 ELSE 0]

AddCounts(c, d) == [k \in 1..Len(c) |-> c[k] + d[k]]

\* One iteration of the loop of lines 90-136 for edge bX[i] -> bX[i+1].
\* The test of line 99 reads y1 and y2 as an earlier iteration left them.
ScanEdge ==
    /\ sPc = "scan"
    /\ sI < Len(mP) - 1
    /\ LET a == mP[sI + 1]
           b == mP[sI + 2]
       IN  IF FLt(a[2], b[2])
           THEN /\ conKeep' = AddCounts(conKeep, EdgeCount(mPts, a[1], a[2], b[1], b[2]))
                /\ sY' = <<a[2], b[2]>>
                /\ sI' = sI + 1
                /\ UNCHANGED sPc
           ELSE IF sY = None
           THEN /\ sPc' = "UnboundLocalError"
                /\ UNCHANGED <<conKeep, sY, sI>>
           ELSE IF sY[2] = sY[1]
           THEN /\ conKeep' = AddCounts(conKeep, HorizontalCount(mPts, a[1], a[2], b[1]))
                /\ sY' = <<a[2], b[2]>>
                /\ sPc' = "parity"
                /\ UNCHANGED sI
           ELSE /\ conKeep' = AddCounts(conKeep, EdgeCount(mPts, b[1], b[2], a[1], a[2]))
                /\ sY' = <<b[2], a[2]>>
                /\ sI' = sI + 1
                /\ UNCHANGED sPc
    /\ UNCHANGED <<mP, mPts, wPc, wFlags, sFlags>>
    /\ UNCHANGED <<dbhVars, hullVars, clipVars, fitVars, rotVars, estVars>>

\* Lines 138-141, after the loop or after the break of line 110.
ScanFinish ==
    /\ sPc = "parity" \/ (sPc = "scan" /\ sI >= Len(mP) - 1)
    /\ sFlags' = [k \in 1..Len(conKeep) |-> conKeep[k] % 2 = 1]
    /\ sPc' = "done"
    /\ UNCHANGED <<mP, mPts, wPc, wFlags, sI, sY, conKeep>>
    /\ UNCHANGED <<dbhVars, hullVars, clipVars, fitVars, rotVars, estVars>>

NextMemb == Winding \/ ScanEdge \/ ScanFinish

InitMemb == MembStart /\ DBHIdle /\ HullIdle /\ ClipIdle /\ FitIdle /\ RotIdle /\ EstIdle

SpecMemb == InitMemb /\ [][NextMemb]_vars

\* ---- properties of the membership tests ---------------------------------

IsClosed(P) == Len(P) >= 2 /\ P[1] = P[Len(P)]

\* The distinct vertices of P, and its edges a -> b in counterclockwise
\* order whichever way P runs.
Vertices(P) == {P[k] : k \in 1..Len(P)}
CCWEdges(P) == {e \in Vertices(P) \X Vertices(P) : HullEdge(Vertices(P), e[1], e[2])}

StrictlyInside(pt, P) == \A e \in CCWEdges(P) : FLt(Zero, Cross(e[1], e[2], pt))
StrictlyOutside(pt, P) == \E e \in CCWEdges(P) : FLt(Cross(e[1], e[2], pt), Zero)

\* The edges of P as index pairs: consecutive vertices, and for an open
\* vertex list the closing edge from the last vertex to the first.
EdgesClosing(P) ==
    {<<i, i + 1>> : i \in 1..(Len(P) - 1)}
        \cup (IF IsClosed(P) THEN {} ELSE {<<Len(P), 1>>})

\* C3 (as claimed): getInsidePoints2 flags a point iff it is on the inside
\* side of every edge of P, the closing edge of an open vertex list included.
C3_EveryEdgeTested ==
    wPc = "done" =>
        \A k \in 1..Len(mPts) :
            wFlags[k] <=>
                \A e \in EdgesClosing(mP) : CrossNegative(mPts[k], mP[e[1]], mP[e[2]])

\* C4 (as claimed): on a closed convex polygon, in either direction, when
\* both tests have returned, the scanline test and the winding test give the
\* same flag to every grid point strictly inside or strictly outside the
\* polygon.
C4_TestsAgree ==
    (IsClosed(mP) /\ wPc = "done" /\ sPc = "done") =>
        \A k \in 1..Len(mPts) :
            (StrictlyInside(mPts[k], mP) \/ StrictlyOutside(mPts[k], mP)) =>
                sFlags[k] = wFlags[k]

\* ------------------------------------------------------------------------
\* estimate_surface_normal, transform_to_normal_plane, filter_by_height
\* ------------------------------------------------------------------------

FNeg(a) == <<-a[1], a[2]>>
FAbs(a) == <<Abs(a[1]), a[2]>>

\* The exact root of a fraction that is the square of a fraction.
ISqrt(n) == CHOOSE k \in 0..n : k * k = n
FSqrt(a) == <<ISqrt(a[1]), ISqrt(a[2])>>

RECURSIVE FSum(_)
FSum(s) == IF s = <<>> THEN Zero ELSE FAdd(Head(s), FSum(Tail(s)))

Column(pts, c) == [k \in 1..Len(pts) |-> pts[k][c]]

VSub(p, q) == <<FSub(p[1], q[1]), FSub(p[2], q[2]), FSub(p[3], q[3])>>
VNeg(p) == <<FNeg(p[1]), FNeg(p[2]), FNeg(p[3])>>
Dot3(p, q) == FAdd(FAdd(FMul(p[1], q[1]), FMul(p[2], q[2])), FMul(p[3], q[3]))

\* np.mean(points, axis=0)
Centroid(pts) ==
    <<FDiv(FSum(Column(pts, 1)), Num(Len(pts))),
      FDiv(FSum(Column(pts, 2)), Num(Len(pts))),
      FDiv(FSum(Column(pts, 3)), Num(Len(pts)))>>

\* A sequence of numbers in ascending order.
RECURSIVE SortAsc(_)
SortAsc(s) ==
    IF s = <<>> THEN <<>>
    ELSE LET m == CHOOSE k \in 1..Len(s) : \A j \in 1..Len(s) : FLe(s[k], s[j])
         IN  <<s[m]>> \o SortAsc([k \in 1..(Len(s) - 1) |-> IF k < m THEN s[k] ELSE s[k + 1]])

\* np.percentile(z, q) of a non-empty z (linear interpolation between the
\* order statistics around the virtual index (q/100)*(n-1)).
Percentile(z, q) ==
    LET s == SortAsc(z)
        lo == (q * (Len(z) - 1)) \div 100
        fr == Frac((q * (Len(z) - 1)) % 100, 100)
    IN  IF fr = Zero THEN s[lo + 1]
        ELSE FAdd(s[lo + 1], FMul(fr, FSub(s[lo + 2], s[lo + 1])))

GroundPercentile == 2          \* line 31
GroundBand == <<1, 5>>         \* 0.2, line 32
InlierTol == <<1, 20>>         \* 0.05, lines 67 and 77
max_points == 10000            \* line 36
SampleCap == 1000              \* line 48
Rounds == 10                   \* line 46

\* Lines 31-33: ground_points.
GroundPoints(points) ==
    LET z_min == Percentile(Column(points, 3), GroundPercentile)
        low(p) == FLt(p[3], FAdd(z_min, GroundBand))
    IN  SelectSeq(points, low)

\* Unit vectors with rational components, a Pythagorean triple over its
\* hypotenuse in every sign pattern, among them both vertical ones.
Triples ==
    {<<0, 0, 1, 1>>, <<1, 0, 0, 1>>, <<0, 1, 0, 1>>, <<3, 0, 4, 5>>, <<0, 3, 4, 5>>,
     <<4, 0, 3, 5>>, <<9, 12, 20, 25>>, <<12, 9, 20, 25>>}
UnitNormals ==
    {<<Frac(sx * t[1], t[4]), Frac(sy * t[2], t[4]), Frac(sz * t[3], t[4])>> :
        sx \in {-1, 1}, sy \in {-1, 1}, sz \in {-1, 1}, t \in Triples}

\* The scatter matrix n * sum(p p^T) - sum(p) sum(p)^T of a sample: n^2 times
\* the covariance matrix whose eigenvectors PCA.fit computes (lines 53-54).
Scatter(pts) ==
    LET n == Num(Len(pts))
        s1 == FSum(Column(pts, 1))
        s2 == FSum(Column(pts, 2))
        s3 == FSum(Column(pts, 3))
        RECURSIVE from(_, _, _)
        from(i, j, k) == IF k > Len(pts) THEN Zero
                         ELSE FAdd(FMul(pts[k][i], pts[k][j]), from(i, j, k + 1))
        m(i, j) == from(i, j, 1)
        xx == FSub(FMul(n, m(1, 1)), FMul(s1, s1))
        xy == FSub(FMul(n, m(1, 2)), FMul(s1, s2))
        xz == FSub(FMul(n, m(1, 3)), FMul(s1, s3))
        yy == FSub(FMul(n, m(2, 2)), FMul(s2, s2))
        yz == FSub(FMul(n, m(2, 3)), FMul(s2, s3))
        zz == FSub(FMul(n, m(3, 3)), FMul(s3, s3))
    IN  <<(<<xx, xy, xz>>), (<<xy, yy, yz>>), (<<xz, yz, zz>>)>>

\* The symmetric matrix M has no negative eigenvalue: its principal minors
\* are all non-negative.
PositiveSemidefinite(M) ==
    /\ \A i \in 1..3 : FLe(Zero, M[i][i])
    /\ \A i \in 1..3 : \A j \in (i + 1)..3 :
           FLe(Zero, FSub(FMul(M[i][i], M[j][j]), FMul(M[i][j], M[j][i])))
    /\ FLe(Zero,
           FAdd(FSub(FMul(M[1][1], FSub(FMul(M[2][2], M[3][3]), FMul(M[2][3], M[3][2]))),
                     FMul(M[1][2], FSub(FMul(M[2][1], M[3][3]), FMul(M[2][3], M[3][1])))),
                FMul(M[1][3], FSub(FMul(M[2][1], M[3][2]), FMul(M[2][2], M[3][1])))))

\* v is a unit eigenvector of the least eigenvalue of the symmetric S.
LeastEigenvector(S, v) ==
    LET Sv == <<Dot3(S[1], v), Dot3(S[2], v), Dot3(S[3], v)>>
        lam == Dot3(v, Sv)
    IN  /\ Sv = <<FMul(lam, v[1]), FMul(lam, v[2]), FMul(lam, v[3])>>
        /\ PositiveSemidefinite(
               <<(<<FSub(S[1][1], lam), S[1][2], S[1][3]>>),
                 (<<S[2][1], FSub(S[2][2], lam), S[2][3]>>),
                 (<<S[3][1], S[3][2], FSub(S[3][3], lam)>>)>>)

\* pca.components_[2] of a sample (lines 53-57, 81-83): the unit vector of
\* least variance, in either sense; where the least variance is shared by
\* several directions, any of them.  Of the unit vectors only UnitNormals
\* are considered: an empty set means the sample is outside this model.
PCAThird(pts) ==
    LET S == Scatter(pts)
    IN  {v \in UnitNormals : LeastEigenvector(S, v)}

\* A normal kept as PCA returned it.
AsReturned(n) == n

\* Lines 61-62 and 84-85.
Upward(n) == IF FLt(n[3], Zero) THEN VNeg(n) ELSE n

\* Lines 65-67 and 75-78: the candidates within 5 cm of the plane.
InlierPoints(ground, normal, center) ==
    LET near(p) == FLt(FAbs(Dot3(VSub(p, center), normal)), InlierTol)
    IN  SelectSeq(ground, near)

\* Lines 47-67: the possible outcomes of one round.  A candidate set of at
\* most SampleCap points is sampled whole.
RoundFits(ground) ==
    LET center == Centroid(ground)
    IN  {[normal |-> Upward(n),
          center |-> center,
          inliers |-> Len(InlierPoints(ground, Upward(n), center))] :
            n \in PCAThird(ground)}

\* A later round replacing the retained pair on a tie as well.
BetterOrEqual(inliers, best_inliers) == inliers >= best_inliers

\* Line 69.
Better(inliers, best_inliers) == inliers > best_inliers

\* A plane retained before any round has run.
DefaultBest == [normal |-> <<Zero, Zero, Num(1)>>, center |-> <<Zero, Zero, Zero>>, inliers |-> 0]

\* Lines 42-44.
NoBest == [normal |-> None, center |-> None, inliers |-> 0]

\* Lines 42-44 and 69-72: the pairs that can be retained after the rounds
\* from r on, each round having any of the outcomes fits, given those that
\* can be retained before round r.
RECURSIVE BestRound(_, _, _)
BestRound(fits, r, bests) ==
    IF r > Rounds THEN bests
    ELSE BestRound(fits, r + 1,
                   {IF Better(fit.inliers, best.inliers) THEN fit ELSE best :
                        fit \in fits, best \in bests})

\* The candidates that lie on the best plane itself.
FinalPointsOnPlane(ground, best) ==
    LET on(p) == Dot3(VSub(p, best.center), best.normal) = Zero
    IN  SelectSeq(ground, on)

\* Lines 75-78: final_points, the candidates within 5 cm of the best plane.
FinalPoints(ground, best) == InlierPoints(ground, best.normal, best.center)

\* Lines 74-91: the refit on the inliers of the best plane.  A best plane
\* that was never set is None, which line 75 cannot subtract;
\* PCA(n_components=3) refuses fewer than 3 samples.
Refined(ground, best) ==
    IF best.normal = None THEN {[status |-> "TypeError"]}
    ELSE LET final_points == FinalPoints(ground, best)
         IN  IF Len(final_points) > 0
             THEN IF Len(final_points) < 3 THEN {[status |-> "ValueError"]}
                  ELSE LET third == PCAThird(final_points)
                       IN  IF third = {} THEN {[status |-> "unmodelled"]}
                           ELSE {[status |-> "ok", normal |-> Upward(n),
                                  center |-> Centroid(final_points)] : n \in third}
             ELSE {[status |-> "ok", normal |-> best.normal, center |-> best.center]}

\* np.percentile of an empty array fails in the library or returns nan,
\* and then PCA refuses the empty sample: an error either way.
EmptyCloud == {[status |-> "IndexError"], [status |-> "ValueError"]}

\* estimate_surface_normal (lines 19-91): the set of its possible outcomes.
\* PCA(n_components=3) refuses fewer than 3 samples.  Samples larger than
\* the caps, or whose normal is none of UnitNormals, are outside this model.
estimate_surface_normal(points) ==
    IF points = <<>> THEN EmptyCloud
    ELSE LET ground == GroundPoints(points)
             fits == RoundFits(ground)
         IN  IF Len(ground) < 3 THEN {[status |-> "ValueError"]}
             ELSE IF Len(ground) > max_points \/ Len(ground) > SampleCap \/ fits = {}
             THEN {[status |-> "unmodelled"]}
             ELSE UNION {Refined(ground, best) : best \in BestRound(fits, 1, {NoBest})}

Identity3 ==
    <<(<<Num(1), Zero, Zero>>), (<<Zero, Num(1), Zero>>), (<<Zero, Zero, Num(1)>>)>>

\* Lines 117-121: the half turn about the x-axis.
HalfTurnX ==
    <<(<<Num(1), Zero, Zero>>), (<<Zero, Num(-1), Zero>>), (<<Zero, Zero, Num(-1)>>)>>

MatVec(R, v) == <<Dot3(R[1], v), Dot3(R[2], v), Dot3(R[3], v)>>
MatMul(A, B) ==
    [i \in 1..3 |-> [j \in 1..3 |->
        FAdd(FAdd(FMul(A[i][1], B[1][j]), FMul(A[i][2], B[2][j])), FMul(A[i][3], B[3][j]))]]

\* Lines 110 and 124: normalize(N x (0,0,1)).
RotationAxis(normal) ==
    LET ax == <<normal[2], FNeg(normal[1]), Zero>>
        len == FSqrt(Dot3(ax, ax))
    IN  <<FDiv(ax[1], len), FDiv(ax[2], len), FDiv(ax[3], len)>>

\* Lines 129-131: the cross-product matrix K of the axis u.
Skew(u) ==
    <<(<<Zero, FNeg(u[3]), u[2]>>), (<<u[3], Zero, FNeg(u[1])>>),
      (<<FNeg(u[2]), u[1], Zero>>)>>

\* Line 133: I + s K + c1 M.
AxisAngle(s, K, c1, M) ==
    [i \in 1..3 |-> [j \in 1..3 |->
        FAdd(FAdd(Identity3[i][j], FMul(s, K[i][j])), FMul(c1, M[i][j]))]]

\* The formula with K in the place of K^2.
RodriguesLinear(normal) ==
    LET K == Skew(RotationAxis(normal))
        cos_theta == normal[3]
        sin_theta == FSqrt(FSub(Num(1), FMul(cos_theta, cos_theta)))
    IN  AxisAngle(sin_theta, K, FSub(Num(1), cos_theta), K)

\* The formula turning the other way about the axis.
RodriguesReversed(normal) ==
    LET K == Skew(RotationAxis(normal))
        cos_theta == normal[3]
        sin_theta == FSqrt(FSub(Num(1), FMul(cos_theta, cos_theta)))
    IN  AxisAngle(FNeg(sin_theta), K, FSub(Num(1), cos_theta), MatMul(K, K))

\* Lines 124-133: I + sin(t) K + (1 - cos(t)) K^2 about normalize(N x z).
Rodrigues(normal) ==
    LET K == Skew(RotationAxis(normal))
        cos_theta == normal[3]
        sin_theta == FSqrt(FSub(Num(1), FMul(cos_theta, cos_theta)))
    IN  AxisAngle(sin_theta, K, FSub(Num(1), cos_theta), MatMul(K, K))

\* np.allclose(v, 0) with the default tolerances: |v_i| <= 1e-8.
Atol == <<1, 100000000>>
AllCloseZero(v) == \A i \in 1..3 : FLe(FAbs(v[i]), Atol)

\* The rotation of transform_to_normal_plane (lines 107-133).
RotationOf(normal) ==
    IF AllCloseZero(<<normal[2], FNeg(normal[1]), Zero>>)
    THEN IF FLt(Zero, normal[3]) THEN Identity3 ELSE HalfTurnX
    ELSE Rodrigues(normal)

\* transform_to_normal_plane (lines 93-139): the transformed points (the
\* rotation is RotationOf(normal)).
transform_to_normal_plane(points, normal, center) ==
    [k \in 1..Len(points) |-> MatVec(RotationOf(normal), VSub(points[k], center))]

\* The mask with both bounds exclusive.
filter_by_height_strict(points, min_height, max_height) ==
    [k \in 1..Len(points) |->
        /\ min_height # None => FLt(min_height, points[k][3])
        /\ max_height # None => FLt(points[k][3], max_height)]

\* filter_by_height (lines 141-159): the mask.
filter_by_height(points, min_height, max_height) ==
    [k \in 1..Len(points) |->
        /\ min_height # None => FLe(min_height, points[k][3])
        /\ max_height # None => FLe(points[k][3], max_height)]

\* points[mask]
Masked(points, mask) ==
    LET idx == {k \in 1..Len(points) : mask[k]}
        RECURSIVE pick(_)
        pick(k) == IF k > Len(points) THEN <<>>
                   ELSE IF k \in idx THEN <<points[k]>> \o pick(k + 1) ELSE pick(k + 1)
    IN  pick(1)

\* ------------------------------------------------------------------------
\* process_with_normal_plane
\* ------------------------------------------------------------------------

MaxZ == 2

P3(x, y, z) == <<Num(x), Num(y), Num(z)>>

\* The plan positions of cloud points: three inside every trajectory below,
\* four outside, one beyond each side.
InsideCells == {<<1, 1>>, <<2, 1>>, <<1, 2>>}
OutsideCells == {<<-1, 1>>, <<1, -1>>, <<4, 2>>, <<2, 4>>}
LayerPatterns ==
    {{}, {<<1, 1>>}, InsideCells, OutsideCells, InsideCells \cup OutsideCells}

LexLess3(p, q) ==
    \/ FLt(p[3], q[3])
    \/ p[3] = q[3] /\ LexLess(p, q)

RECURSIVE SetToSeq3(_)
SetToSeq3(S) ==
    IF S = {} THEN <<>>
    ELSE LET m == CHOOSE p \in S : \A q \in S \ {p} : LexLess3(p, q)
         IN  <<m>> \o SetToSeq3(S \ {m})

\* The clouds: one pattern of plan positions on each level 0..MaxZ.
Clouds ==
    {SetToSeq3(UNION {{P3(c[1], c[2], z) : c \in f[z]} : z \in 0..MaxZ}) :
        f \in [0..MaxZ -> LayerPatterns]}

\* The trajectories: the poses of a walk around a square (with one pose
\* inside it) and around a triangle.
Trajectories ==
    {<<P3(0, 0, 1), P3(3, 0, 1), P3(1, 1, 1), P3(3, 3, 1), P3(0, 3, 1)>>,
     <<P3(0, 0, 1), P3(5, 0, 1), P3(0, 5, 1)>>}

HeightBands ==
    {<<None, None>>, <<Num(1), None>>, <<None, Num(1)>>, <<Num(0), Num(1)>>}

PlanOf(pts) == [k \in 1..Len(pts) |-> <<pts[k][1], pts[k][2]>>]
PlanSet(pts) == {<<pts[k][1], pts[k][2]>> : k \in 1..Len(pts)}

\* sp.spatial.ConvexHull(hull_points).vertices applied to hull_points (lines
\* 223-224): the hull vertices counterclockwise, from a vertex of the
\* library's choosing; an open list.
ConvexHullVertices(hull_points) ==
    LET S == PlanSet(hull_points)
        V == HullVerts(S)
    IN  {CCWFrom(S, p, Cardinality(V)) : p \in V}

ClipStart ==
    /\ cIn \in Clouds
    /\ cOdm \in Trajectories
    /\ cH \in HeightBands
    /\ cPlane = None
    /\ cTData = <<>>
    /\ cTOdm = <<>>
    /\ cDat = cIn
    /\ cHull = <<>>
    /\ cFiltered = None
    /\ cFile = None
    /\ cRet = None
    /\ cPc = "estimate"
    /\ cRun = 1
    /\ cFirst = None

\* Line 205.
ClipEstimate ==
    /\ cPc = "estimate"
    /\ \E r \in estimate_surface_normal(cDat) :
          IF r.status = "ok"
          THEN cPlane' = <<r.normal, r.center>> /\ cPc' = "transform"
          ELSE cPlane' = None /\ cPc' = r.status
    /\ UNCHANGED <<cIn, cOdm, cH, cTData, cTOdm, cDat, cHull, cFiltered, cFile,
                   cRet, cRun, cFirst>>
    /\ UNCHANGED <<dbhVars, hullVars, membVars, fitVars, rotVars, estVars>>

\* Lines 210-211.
ClipTransform ==
    /\ cPc = "transform"
    /\ cTData' = transform_to_normal_plane(cDat, cPlane[1], cPlane[2])
    /\ cTOdm' = transform_to_normal_plane(cOdm, cPlane[1], cPlane[2])
    /\ cPc' = "height"
    /\ UNCHANGED <<cIn, cOdm, cH, cPlane, cDat, cHull, cFiltered, cFile, cRet,
                   cRun, cFirst>>
    /\ UNCHANGED <<dbhVars, hullVars, membVars, fitVars, rotVars, estVars>>

\* Lines 214-216.
ClipHeight ==
    /\ cPc = "height"
    /\ LET height_mask == filter_by_height(cTData, cH[1], cH[2])
       IN  /\ cTData' = Masked(cTData, height_mask)
           /\ cDat' = Masked(cDat, height_mask)
    /\ cPc' = "hull"
    /\ UNCHANGED <<cIn, cOdm, cH, cPlane, cTOdm, cHull, cFiltered, cFile, cRet,
                   cRun, cFirst>>
    /\ UNCHANGED <<dbhVars, hullVars, membVars, fitVars, rotVars, estVars>>

\* Lines 222-224.
ClipHull ==
    /\ cPc = "hull"
    /\ cHull' \in ConvexHullVertices(PlanOf(cTOdm))
    /\ cPc' = "inside"
    /\ UNCHANGED <<cIn, cOdm, cH, cPlane, cTData, cTOdm, cDat, cFiltered, cFile,
                   cRet, cRun, cFirst>>
    /\ UNCHANGED <<dbhVars, hullVars, membVars, fitVars, rotVars, estVars>>

\* Lines 227-228.
ClipInside ==
    /\ cPc = "inside"
    /\ cFiltered' = Masked(cDat, getInsidePoints2(PlanOf(cTData), cHull))
    /\ cPc' = "write"
    /\ UNCHANGED <<cIn, cOdm, cH, cPlane, cTData, cTOdm, cDat, cHull, cFile, cRet,
                   cRun, cFirst>>
    /\ UNCHANGED <<dbhVars, hullVars, membVars, fitVars, rotVars, estVars>>

\* A writer that takes no minimum of the data and writes whatever it gets.
writeLasAnyCloud(data) == [status |-> "ok", file |-> <<data>>]

\* writeLas (pjfunc.py lines 7-18) takes np.min(data, axis=0) for the header
\* offsets before it opens the file; an empty cloud has no minimum.
writeLas(data) ==
    IF data = <<>> THEN [status |-> "ValueError", file |-> None]
    ELSE [status |-> "ok", file |-> <<data>>]

\* Line 236.
ClipWrite ==
    /\ cPc = "write"
    /\ LET w == writeLas(cFiltered)
       IN  IF w.status = "ok"
           THEN cPc' = "bounds" /\ cFile' = w.file
           ELSE cPc' = w.status /\ UNCHANGED cFile
    /\ UNCHANGED <<cIn, cOdm, cH, cPlane, cTData, cTOdm, cDat, cHull, cFiltered,
                   cRet, cRun, cFirst>>
    /\ UNCHANGED <<dbhVars, hullVars, membVars, fitVars, rotVars, estVars>>

\* np.floor / np.ceil of a number.
Floor(a) == a[1] \div a[2]
Ceil(a) == -((-a[1]) \div a[2])

\* Lines 244-251.
Bounds(pts) ==
    [c \in 1..3 |->
        <<Floor(SortAsc(Column(pts, c))[1]), Ceil(SortAsc(Column(pts, c))[Len(pts)])>>]

\* Lines 244-259.
ClipBounds ==
    /\ cPc = "bounds"
    /\ IF cFiltered = <<>>
       THEN cPc' = "ValueError" /\ UNCHANGED cRet
       ELSE /\ cPc' = "done"
            /\ cRet' = <<cFiltered, Bounds(cFiltered),
                         <<cPlane[1], cPlane[2], RotationOf(cPlane[1])>>>>
    /\ UNCHANGED <<cIn, cOdm, cH, cPlane, cTData, cTOdm, cDat, cHull, cFiltered,
                   cFile, cRun, cFirst>>
    /\ UNCHANGED <<dbhVars, hullVars, membVars, fitVars, rotVars, estVars>>

\* The caller clips the returned cloud again, with the same trajectory and
\* the same height band.
ClipAgain ==
    /\ cPc = "done"
    /\ cRun = 1
    /\ cFirst' = cRet[1]
    /\ cIn' = cRet[1]
    /\ cDat' = cRet[1]
    /\ cRun' = 2
    /\ cPlane' = None
    /\ cTData' = <<>>
    /\ cTOdm' = <<>>
    /\ cHull' = <<>>
    /\ cFiltered' = None
    /\ cRet' = None
    /\ cPc' = "estimate"
    /\ UNCHANGED <<cOdm, cH, cFile>>
    /\ UNCHANGED <<dbhVars, hullVars, membVars, fitVars, rotVars, estVars>>

NextClip ==
    \/ ClipEstimate \/ ClipTransform \/ ClipHeight \/ ClipHull
    \/ ClipInside \/ ClipWrite \/ ClipBounds \/ ClipAgain

InitClip == ClipStart /\ DBHIdle /\ HullIdle /\ MembIdle /\ FitIdle /\ RotIdle /\ EstIdle

SpecClip == InitClip /\ [][NextClip]_vars

\* ---- properties of process_with_normal_plane ----------------------------

\* filtered_data has been computed.
ClipFiltered == cPc \in {"write", "bounds", "done"}

InSeq(p, s) == \E k \in 1..Len(s) : s[k] = p

\* The aligned counterpart of an original point, and its plan position.
Aligned(p) == MatVec(RotationOf(cPlane[1]), VSub(p, cPlane[2]))
AlignedPlan(p) == <<Aligned(p)[1], Aligned(p)[2]>>

HeightPasses(p) ==
    /\ cH[1] # None => FLe(cH[1], Aligned(p)[3])
    /\ cH[2] # None => FLe(Aligned(p)[3], cH[2])

\* C1 (as claimed): the returned points are original points that pass the
\* height filter and whose aligned plan position is not strictly outside
\* the convex hull of the aligned trajectory, and every height-passing
\* point strictly inside that hull is returned.
C1_ClipIsHullMembership ==
    ClipFiltered =>
        /\ \A k \in 1..Len(cFiltered) :
               /\ InSeq(cFiltered[k], cIn)
               /\ HeightPasses(cFiltered[k])
               /\ ~StrictlyOutside(AlignedPlan(cFiltered[k]), PlanOf(cTOdm))
        /\ \A k \in 1..Len(cIn) :
               (HeightPasses(cIn[k]) /\ StrictlyInside(AlignedPlan(cIn[k]), PlanOf(cTOdm)))
                   => InSeq(cIn[k], cFiltered)

\* The second call has returned, and every point the first call returned is
\* strictly inside the hull of the trajectory as the second call aligned it:
\* no edge test, whichever edges the second call ran, can remove a point.
SecondCallOnInteriorCloud ==
    /\ cRun = 2
    /\ cPc = "done"
    /\ \A k \in 1..Len(cFirst) :
           StrictlyInside(AlignedPlan(cFirst[k]), PlanOf(cTOdm))

\* C10 (as claimed): clipping the returned cloud again with the same
\* trajectory and height band returns the same cloud, the same points in the
\* same order; stated for the returned clouds that lie strictly inside the
\* hull.
C10_ClipIdempotent ==
    SecondCallOnInteriorCloud => cRet[1] = cFirst

\* ------------------------------------------------------------------------
\* circleFit
\* ------------------------------------------------------------------------

\* The point clusters: 3 to MaxPts distinct grid points.
FitInputs ==
    {SetToSeq(S) : S \in {T \in SUBSET Grid : Cardinality(T) >= 3 /\ Cardinality(T) <= MaxPts}}

\* The attributes of a numpy array that are no methods.
NdarrayAttributes ==
    {"T", "mT", "base", "ctypes", "data", "device", "dtype", "flags", "flat", "imag",
     "itemsize", "nbytes", "ndim", "real", "shape", "size", "strides"}

\* Line 66 reads the attribute TP of the array G.
Line66Attribute == "TP"

\* The determinant of a 3x3 matrix of numbers.
Det3(M) ==
    FAdd(FSub(FMul(M[1][1], FSub(FMul(M[2][2], M[3][3]), FMul(M[2][3], M[3][2]))),
              FMul(M[1][2], FSub(FMul(M[2][1], M[3][3]), FMul(M[2][3], M[3][1])))),
         FMul(M[1][3], FSub(FMul(M[2][1], M[3][2]), FMul(M[2][2], M[3][1]))))

\* M with column c replaced by the vector b.
WithColumn(M, c, b) == [i \in 1..3 |-> [j \in 1..3 |-> IF j = c THEN b[i] ELSE M[i][j]]]

\* Lines 61-65 and 69-70: G has the rows [x_i, y_i, 1]; A = G^T G, B = G^T D
\* with D_i = x_i^2 + y_i^2.
NormalEquations(X) ==
    LET row(k) == <<X[k][1], X[k][2], Num(1)>>
        D(k) == FAdd(FMul(X[k][1], X[k][1]), FMul(X[k][2], X[k][2]))
    IN  [A |-> [i \in 1..3 |-> [j \in 1..3 |->
                   FSum([k \in 1..Len(X) |-> FMul(row(k)[i], row(k)[j])])]],
         B |-> [i \in 1..3 |-> FSum([k \in 1..Len(X) |-> FMul(row(k)[i], D(k))])]]

\* Lines 72-84.  On these clusters np.linalg.cond(A) exceeds 1e12 exactly
\* when A is singular; solve(A, B) is Cramer's rule.
SolveCircle(X) ==
    LET ne == NormalEquations(X)
        det == Det3(ne.A)
        res(c) == FDiv(Det3(WithColumn(ne.A, c, ne.B)), det)
        xc == FDiv(res(1), Num(2))
        yc == FDiv(res(2), Num(2))
    IN  IF det = Zero
        THEN [status |-> "ValueError", ret |-> None]
        ELSE [status |-> "done",
              ret |-> <<xc, yc, FAdd(res(3), FAdd(FMul(xc, xc), FMul(yc, yc)))>>]

\* circleFit (lines 58-84): its outcome, with the radius as its square.
circleFit(X) ==
    IF Line66Attribute \notin NdarrayAttributes
    THEN [status |-> "AttributeError", ret |-> None]
    ELSE SolveCircle(X)

FitStart ==
    /\ fX \in FitInputs
    /\ fPc = "call"
    /\ fRet = None

\* The call circleFit(fX).
CircleFit ==
    /\ fPc = "call"
    /\ fPc' = circleFit(fX).status
    /\ fRet' = circleFit(fX).ret
    /\ UNCHANGED fX
    /\ UNCHANGED <<dbhVars, hullVars, membVars, clipVars, rotVars, estVars>>

NextFit == CircleFit

InitFit == FitStart /\ DBHIdle /\ HullIdle /\ MembIdle /\ ClipIdle /\ RotIdle /\ EstIdle

SpecFit == InitFit /\ [][NextFit]_vars

\* ---- properties of circleFit --------------------------------------------

\* The center of the circle through three points that are not on one line.
Circumcenter(a, b, c) ==
    LET sq(p) == FAdd(FMul(p[1], p[1]), FMul(p[2], p[2]))
        d == FMul(Num(2), Cross(a, b, c))
    IN  <<FDiv(FAdd(FAdd(FMul(sq(a), FSub(b[2], c[2])), FMul(sq(b), FSub(c[2], a[2]))),
                    FMul(sq(c), FSub(a[2], b[2]))), d),
          FDiv(FAdd(FAdd(FMul(sq(a), FSub(c[1], b[1])), FMul(sq(b), FSub(a[1], c[1]))),
                    FMul(sq(c), FSub(b[1], a[1]))), d)>>

DistSq(p, q) ==
    FAdd(FMul(FSub(p[1], q[1]), FSub(p[1], q[1])), FMul(FSub(p[2], q[2]), FSub(p[2], q[2])))

\* The points of X lie on the circle with center c and squared radius r2.
OnCircle(X, c, r2) == \A k \in 1..Len(X) : DistSq(X[k], c) = r2

\* C8 (as claimed): for at least 3 points, not on one line, that lie exactly
\* on a circle, circleFit returns its center and its radius.
C8_ExactCircleRecovered ==
    (fPc \notin {"call", "idle"} /\ ~Collinear(Vertices(fX))) =>
        LET c == Circumcenter(fX[1], fX[2], fX[3])
        IN  OnCircle(fX, c, DistSq(fX[1], c)) =>
                /\ fPc = "done"
                /\ fRet = <<c[1], c[2], DistSq(fX[1], c)>>

\* C9 (as claimed): on points of one line circleFit ends with the error of
\* its condition-number check and returns nothing, and on points not on one
\* line that check does not fire.
C9_CollinearRejected ==
    fPc \notin {"call", "idle"} =>
        /\ Collinear(Vertices(fX)) => (fPc = "ValueError" /\ fRet = None)
        /\ ~Collinear(Vertices(fX)) => fPc # "ValueError"

\* ------------------------------------------------------------------------
\* transform_to_normal_plane called on its own
\* ------------------------------------------------------------------------

RotPoints == {P3(0, 0, 0), P3(1, 2, 3), P3(-2, 1, 0)}

RotStart ==
    /\ tP \in {<<p>> : p \in RotPoints} \cup {<<p, q>> : p \in RotPoints, q \in RotPoints}
    /\ tN \in UnitNormals
    /\ tC \in {P3(0, 0, 0), P3(1, 1, 1)}
    /\ tPc = "call"
    /\ tRet = None

\* The call transform_to_normal_plane(tP, tN, tC).
Transform ==
    /\ tPc = "call"
    /\ tRet' = <<transform_to_normal_plane(tP, tN, tC), RotationOf(tN)>>
    /\ tPc' = "done"
    /\ UNCHANGED <<tP, tN, tC>>
    /\ UNCHANGED <<dbhVars, hullVars, membVars, clipVars, fitVars, estVars>>

NextRot == Transform

InitRot == RotStart /\ DBHIdle /\ HullIdle /\ MembIdle /\ ClipIdle /\ FitIdle /\ EstIdle

SpecRot == InitRot /\ [][NextRot]_vars

\* ---- properties of transform_to_normal_plane ----------------------------

Transposed(R) == [i \in 1..3 |-> [j \in 1..3 |-> R[j][i]]]
VAdd(p, q) == <<FAdd(p[1], q[1]), FAdd(p[2], q[2]), FAdd(p[3], q[3])>>
Diag(a, b, c) ==
    <<(<<Num(a), Num(0), Num(0)>>), (<<Num(0), Num(b), Num(0)>>),
      (<<Num(0), Num(0), Num(c)>>)>>
UnitZ == <<Num(0), Num(0), Num(1)>>
Vertical(n) == n[1] = Num(0) /\ n[2] = Num(0)

\* C11: the returned rotation R has R^T R = identity, and R^T q + C of every
\* returned point q is the input point it came from.
C11_RotationOrthonormal ==
    tPc = "done" =>
        /\ MatMul(Transposed(tRet[2]), tRet[2]) = Diag(1, 1, 1)
        /\ Len(tRet[1]) = Len(tP)
        /\ \A k \in 1..Len(tP) :
               VAdd(MatVec(Transposed(tRet[2]), tRet[1][k]), tC) = tP[k]

\* The axis-angle branch has returned, for a normal with all three
\* components non-zero and a point away from the center.
C11_Witness ==
    /\ tPc = "done"
    /\ tN = <<Frac(9, 25), Frac(-12, 25), Frac(-4, 5)>>
    /\ tP = <<P3(1, 2, 3)>>
    /\ tC = P3(1, 1, 1)
    /\ tRet[2] # Diag(1, 1, 1)

\* C12: the returned rotation R takes the normal N to (0,0,1) and the
\* returned points are R (p - C); R is the identity for N = (0,0,1),
\* diag(1,-1,-1) for N = (0,0,-1), and otherwise the rotation about
\* N x (0,0,1): orthonormal, of determinant 1 and leaving that axis fixed.
C12_NormalToZ ==
    tPc = "done" =>
        LET R == tRet[2]
            axis == <<tN[2], FNeg(tN[1]), Num(0)>>
        IN  /\ MatVec(R, tN) = UnitZ
            /\ \A k \in 1..Len(tP) : tRet[1][k] = MatVec(R, VSub(tP[k], tC))
            /\ tN = UnitZ => R = Diag(1, 1, 1)
            /\ tN = VNeg(UnitZ) => R = Diag(1, -1, -1)
            /\ ~Vertical(tN) =>
                   /\ MatVec(R, axis) = axis
                   /\ MatMul(Transposed(R), R) = Diag(1, 1, 1)
                   /\ Det3(R) = Num(1)

\* The axis-angle branch has returned for a normal pointing below the
\* horizon.
C12_Witness ==
    /\ tPc = "done"
    /\ tN = <<Frac(12, 25), Frac(9, 25), Frac(-4, 5)>>
    /\ MatVec(tRet[2], tN) = UnitZ
    /\ tRet[2] # Diag(1, -1, -1)

\* ------------------------------------------------------------------------
\* estimate_surface_normal called on its own
\* ------------------------------------------------------------------------

F3(x, y, z) == <<Frac(x[1], x[2]), Frac(y[1], y[2]), Frac(z[1], z[2])>>

\* The clouds: none; three points on a slope; a flat square below one high
\* point; a flat row; two and three layers of the square, closer than the
\* ground band; a square on a slope; a cross whose two short arms have the
\* same spread, one of them vertical.
EstClouds ==
    {<<>>,
     <<P3(0, 0, 0), P3(1, 1, 1), P3(2, 2, 2)>>,
     <<P3(0, 0, 0), P3(2, 0, 0), P3(0, 2, 0), P3(2, 2, 0), P3(1, 1, 1)>>,
     <<P3(0, 0, 0), P3(1, 0, 0), P3(2, 0, 0)>>,
     [k \in 1..8 |-> F3(<<2 * (k % 2), 1>>, <<2 * ((k \div 2) % 2), 1>>,
                        <<3 * (k \div 5), 20>>)],
     [k \in 1..12 |-> F3(<<2 * (k % 2), 1>>, <<2 * ((k \div 2) % 2), 1>>,
                         <<3 * ((k - 1) \div 4), 40>>)],
     <<F3(<<0, 1>>, <<0, 1>>, <<0, 1>>), F3(<<0, 1>>, <<2, 1>>, <<0, 1>>),
       F3(<<4, 25>>, <<0, 1>>, <<-3, 25>>), F3(<<4, 25>>, <<2, 1>>, <<-3, 25>>)>>,
     <<F3(<<-5, 1>>, <<0, 1>>, <<0, 1>>), F3(<<5, 1>>, <<0, 1>>, <<0, 1>>),
       F3(<<0, 1>>, <<-3, 50>>, <<0, 1>>), F3(<<0, 1>>, <<3, 50>>, <<0, 1>>),
       F3(<<0, 1>>, <<0, 1>>, <<-3, 50>>), F3(<<0, 1>>, <<0, 1>>, <<3, 50>>)>>}

EstStart ==
    /\ eIn \in EstClouds
    /\ eGround = <<>>
    /\ eRound = 0
    /\ eBest = None
    /\ eBestRound = 0
    /\ eCounts = <<>>
    /\ ePc = "ground"
    /\ eFinal = None
    /\ eRet = None

\* Lines 31-44: the candidate ground points and the empty best plane.
EstGround ==
    /\ ePc = "ground"
    /\ IF eIn = <<>>
       THEN /\ \E r \in EmptyCloud : ePc' = r.status
            /\ UNCHANGED <<eGround, eBest>>
       ELSE /\ eGround' = GroundPoints(eIn)
            /\ eBest' = NoBest
            /\ ePc' = IF Len(GroundPoints(eIn)) > max_points THEN "unmodelled" ELSE "rounds"
    /\ UNCHANGED <<eIn, eRound, eBestRound, eCounts, eFinal, eRet>>
    /\ UNCHANGED <<dbhVars, hullVars, membVars, clipVars, fitVars, rotVars>>

\* One round of the loop of lines 46-72.
EstRound ==
    /\ ePc = "rounds"
    /\ eRound < Rounds
    /\ IF Len(eGround) < 3
       THEN ePc' = "ValueError" /\ UNCHANGED <<eRound, eBest, eBestRound, eCounts>>
       ELSE IF Len(eGround) > SampleCap \/ RoundFits(eGround) = {}
       THEN ePc' = "unmodelled" /\ UNCHANGED <<eRound, eBest, eBestRound, eCounts>>
       ELSE \E fit \in RoundFits(eGround) :
               /\ eRound' = eRound + 1
               /\ eCounts' = Append(eCounts, fit.inliers)
               /\ IF Better(fit.inliers, eBest.inliers)
                  THEN eBest' = fit /\ eBestRound' = eRound + 1
                  ELSE UNCHANGED <<eBest, eBestRound>>
               /\ UNCHANGED ePc
    /\ UNCHANGED <<eIn, eGround, eFinal, eRet>>
    /\ UNCHANGED <<dbhVars, hullVars, membVars, clipVars, fitVars, rotVars>>

\* Lines 74-91, after the last round.
EstRefine ==
    /\ ePc = "rounds"
    /\ eRound = Rounds
    /\ \E r \in Refined(eGround, eBest) :
          IF r.status = "ok"
          THEN ePc' = "done" /\ eRet' = <<r.normal, r.center>>
          ELSE ePc' = r.status /\ UNCHANGED eRet
    /\ eFinal' = IF eBest.normal = None THEN None ELSE FinalPoints(eGround, eBest)
    /\ UNCHANGED <<eIn, eGround, eRound, eBest, eBestRound, eCounts>>
    /\ UNCHANGED <<dbhVars, hullVars, membVars, clipVars, fitVars, rotVars>>

NextEst == EstGround \/ EstRound \/ EstRefine

InitEst == EstStart /\ DBHIdle /\ HullIdle /\ MembIdle /\ ClipIdle /\ FitIdle /\ RotIdle

SpecEst == InitEst /\ [][NextEst]_vars

\* ---- further properties of the core routines ----------------------------

\* At most two points, or all points on one line (all sharing their x
\* included).
Degenerate(pts) == Len(pts) <= 2 \/ Collinear(Vertices(pts))

\* C15 (as claimed): convexHull on degenerate input (0, 1 or 2 points, all
\* points on one line, all points with one x) raises no error.
C15_DegenerateHullReturned ==
    Degenerate(hIn) => hPc # "IndexError"

\* C16 (as claimed): on every closed polygon, whatever the direction in y of
\* its edges, getInsidePoints never aborts with an error, and once it has
\* returned there is one flag per query point.
C16_ScanlineNeverAborts ==
    IsClosed(mP) =>
        /\ sPc # "UnboundLocalError"
        /\ sPc = "done" => Len(sFlags) = Len(mPts)

\* The height filter of the current call has run.
AfterHeight == cPc \in {"hull", "inside", "write", "bounds", "done"}

\* C17: filter_by_height gives one flag per point, true iff
\* min_height <= z <= max_height with None for no bound, and after the
\* filter the original cloud holds exactly the input points whose aligned
\* height is in the band, in input order, with the aligned cloud holding
\* their aligned counterparts at the same positions.
C17_HeightBandInclusive ==
    AfterHeight =>
        LET all == [k \in 1..Len(cIn) |-> Aligned(cIn[k])]
            mask == filter_by_height(all, cH[1], cH[2])
        IN  /\ Len(mask) = Len(cIn)
            /\ \A k \in 1..Len(cIn) : mask[k] <=> HeightPasses(cIn[k])
            /\ cDat = SelectSeq(cIn, HeightPasses)
            /\ Len(cTData) = Len(cDat)
            /\ \A k \in 1..Len(cDat) : cTData[k] = Aligned(cDat[k])

\* A band with both bounds has dropped a point and kept one at its upper
\* bound.
C17_Witness ==
    /\ cPc = "hull"
    /\ cH = <<Num(0), Num(1)>>
    /\ Len(cDat) < Len(cIn)
    /\ \E k \in 1..Len(cTData) : cTData[k][3] = Num(1)
    /\ \E k \in 1..Len(cTData) : cTData[k][3] = Num(0)

\* C18 (as claimed), for compressDBH: no step of the routine changes its
\* input rows, and none creates, moves or modifies a file.
C18_NoSideEffects ==
    [][dat' = dat /\ cwdFile' = cwdFile /\ resFile' = resFile]_vars

\* (x - x_i)(y_{i+1} - y_i) - (y - y_i)(x_{i+1} - x_i)
EdgeCross(pt, p1, p2) ==
    FSub(FMul(FSub(pt[1], p1[1]), FSub(p2[2], p1[2])),
         FMul(FSub(pt[2], p1[2]), FSub(p2[1], p1[1])))

\* C20 (as claimed): getInsidePoints2 counts a point as on the inside side
\* of an edge iff that cross product is non-negative, so that it flags
\* exactly the points with a non-negative cross product on every edge it
\* tests.
C20_InsideSideNonNegative ==
    wPc = "done" =>
        \A k \in 1..Len(mPts) :
            wFlags[k] <=>
                \A i \in 1..(Len(mP) - 1) : FLe(Zero, EdgeCross(mPts[k], mP[i], mP[i + 1]))

(***************************************************************************)
(* Properties of estimate_surface_normal.                                  *)
(***************************************************************************)

\* The senses PCA can return for the candidate points include a downward one.
DownwardCandidate == \E n \in PCAThird(eGround) : FLt(n[3], Zero)

\* C13: on every path on which estimate_surface_normal returns, the returned
\* normal has a non-negative z-component, and so has the normal retained
\* after any round: each round's candidate is flipped when its z is negative
\* before it can be retained, and the refined normal before it is returned.
C13_NormalUpward ==
    /\ (ePc = "rounds" /\ eBest.normal # None) => FLe(Zero, eBest.normal[3])
    /\ ePc = "done" => FLe(Zero, eRet[1][3])

\* A call has returned a tilted normal that PCA can also return pointing down.
C13_Witness ==
    /\ ePc = "done"
    /\ DownwardCandidate
    /\ eRet[1] = <<Frac(3, 5), Zero, Frac(4, 5)>>
    /\ eBest.normal = eRet[1]

\* No round of the call found an inlier.
NoInlierEver == Len(eCounts) = Rounds /\ \A r \in 1..Rounds : eCounts[r] = 0

\* C14: estimate_surface_normal never returns a silent default plane: on an
\* empty input cloud, and likewise when no round finds any inlier, no best
\* plane is ever retained, the call does not return a (normal, center) pair
\* and it ends in an error.
C14_NoSilentDefault ==
    (eIn = <<>> \/ NoInlierEver) =>
        /\ eRet = None
        /\ ePc \in {"ground", "rounds", "IndexError", "ValueError", "TypeError"}
        /\ ePc = "rounds" => (eBest.normal = None /\ ENABLED EstRefine)
        /\ ePc = "ground" => ENABLED EstGround

\* All the rounds have run on a cloud with candidate points, none found an
\* inlier, and the call has ended in the error of line 75.
C14_Witness ==
    /\ eIn # <<>>
    /\ Len(eGround) >= 3
    /\ NoInlierEver
    /\ ePc = "TypeError"
    /\ eRet = None

\* The largest of the inlier counts s, and the first round that reached it.
MaxCount(s) == CHOOSE m \in {s[r] : r \in 1..Len(s)} : \A r \in 1..Len(s) : s[r] <= m
FirstMax(s) == CHOOSE r \in 1..Len(s) : s[r] = MaxCount(s) /\ \A q \in 1..(r - 1) : s[q] < s[r]

\* C19: after every round, and so after the fixed number of rounds, the
\* retained (normal, center) is that of the earliest round whose inlier count
\* equals the maximum inlier count over the rounds run: a later round replaces
\* the retained pair only when its count is strictly greater.
C19_EarliestBestRound ==
    /\ (Len(eCounts) > 0 /\ MaxCount(eCounts) = 0) => eBestRound = 0
    /\ (Len(eCounts) > 0 /\ MaxCount(eCounts) > 0) =>
        /\ eBestRound = FirstMax(eCounts)
        /\ eBest.inliers = MaxCount(eCounts)
        /\ Len(InlierPoints(eGround, eBest.normal, eBest.center)) = eBest.inliers

\* All the rounds have run; the third was strictly better than the first two
\* and was retained, and a later round tied with it.
C19_Witness ==
    /\ Len(eCounts) = Rounds
    /\ eCounts[1] = 4
    /\ eCounts[2] = 4
    /\ eCounts[3] = 6
    /\ \E r \in 4..Rounds : eCounts[r] = 6
    /\ eBestRound = 3
    /\ eBest.inliers = 6

\* The count edge i of P adds for each point when the branch is chosen by the
\* edge's own endpoints: rising, horizontal or falling.
OwnEdgeCount(pts, P, i) ==
    LET a == P[i]
        b == P[i + 1]
    IN  IF FLt(a[2], b[2]) THEN EdgeCount(pts, a[1], a[2], b[1], b[2])
        ELSE IF a[2] = b[2] THEN HorizontalCount(pts, a[1], a[2], b[1])
        ELSE EdgeCount(pts, b[1], b[2], a[1], a[2])

\* The counts of the edges i, i+1, ... of P, added up.
RECURSIVE TotalCount(_, _, _)
TotalCount(pts, P, i) ==
    IF i > Len(P) - 1 THEN [k \in 1..Len(pts) |-> 0]
    ELSE AddCounts(OwnEdgeCount(pts, P, i), TotalCount(pts, P, i + 1))

\* C21 (as claimed): in getInsidePoints the horizontal-edge branch is taken
\* for an edge exactly when that edge's own endpoints have equal y, every
\* edge has been visited when the call returns, and a point is reported
\* inside iff its crossing count summed over all the edges is odd.
C21_EveryEdgeCounted ==
    /\ sPc = "parity" => mP[sI + 1][2] = mP[sI + 2][2]
    /\ sPc = "done" =>
           /\ sI = Len(mP) - 1
           /\ \A k \in 1..Len(mPts) : sFlags[k] <=> TotalCount(mPts, mP, 1)[k] % 2 = 1

\* The chain a chain-building loop of convexHull is working on, or has left.
InUpperLoop == hPc \in {"upper", "flip"}
InLowerLoop == hPc \in {"lower", "join"}

\* C22: for every input of N >= 2 points each of convexHull's two
\* chain-building loops leaves through its break within the N passes allowed
\* (no error, and at most N - 2 passes cut the chain); every pass that does
\* not stop strictly shortens the chain; the first and the last point in sort
\* order are never removed; and the chain each loop leaves is a fixed point of
\* its scan: one more pass would keep every remaining point.
C22_ChainLoopsReachFixedPoint ==
    Len(hIn) >= 2 =>
        /\ hPc # "IndexError"
        /\ (InUpperLoop \/ InLowerLoop) =>
               /\ hk <= Len(hIn) - 2
               /\ Len(hX) >= 2
               /\ Len(hX) <= Len(hIn) - hk
        /\ InUpperLoop =>
               /\ XY(hX[1]) = hSorted[1]
               /\ XY(hX[Len(hX)]) = hSorted[Len(hSorted)]
        /\ InLowerLoop =>
               /\ XY(hX[1]) = hSorted[Len(hSorted)]
               /\ XY(hX[Len(hX)]) = hSorted[1]
        /\ hPc \in {"lower", "join", "done"} =>
               Len(ScanUp(hUp, <<1, 2>>, 3)) = Len(hUp)
        /\ hPc = "done" =>
               Len(ScanDown(hX, <<1, 2>>, 3)) = Len(hX)

\* Both loops have left through their break, the lower one after two
\* passes that each cut its chain, on five points.
C22_Witness ==
    /\ Len(hIn) = 5
    /\ hPc = "done"
    /\ hk = 2
    /\ Len(hUp) < 5
    /\ Len(hX) <= 3

\* The refinement of lines 74-89 has been reached with a retained best plane.
RefinedWithBest == Len(eCounts) = Rounds /\ ePc # "rounds" /\ eBest.normal # None

\* C23: whenever the final refinement is reached with a retained best plane,
\* final_points is exactly the candidate points counted for the winning round
\* and its size is best_inliers, at least 1: the branch of line 80 that
\* refits is taken, never the one that returns the unrefined best pair, and
\* a returned pair is the refit of final_points.
C23_RefitAlwaysRuns ==
    RefinedWithBest =>
        /\ eBest.inliers >= 1
        /\ eFinal = InlierPoints(eGround, eBest.normal, eBest.center)
        /\ Len(eFinal) = eBest.inliers
        /\ ePc \in {"done", "ValueError", "unmodelled"}
        /\ ePc = "done" =>
               /\ eRet[2] = Centroid(eFinal)
               /\ \E n \in PCAThird(eFinal) : eRet[1] = Upward(n)

\* A call has returned the refit of the 4 inliers of the winning round, out
\* of 12 candidate points.
C23_Witness ==
    /\ RefinedWithBest
    /\ ePc = "done"
    /\ Len(eGround) = 12
    /\ eBest.inliers = 4
    /\ Len(eFinal) = 4

\* C24: during compressDBH's scan the lists of per-tree means, standard
\* deviations and ranges each have currT - 1 entries (currT starts at 1 and
\* grows by exactly 1 with each flush), and after the entry appended behind
\* the loop each has exactly currT entries, for every input, the empty one
\* included: the table of currT rows takes the lists without a length
\* mismatch, and a returned table has currT rows.
C24_ListsMatchTreeCounter ==
    /\ dbhPc = "scan" =>
           /\ Len(meanCS) = currT - 1
           /\ Len(sdCS) = currT - 1
           /\ Len(rangeCS) = currT - 1
    /\ DBHOver =>
           /\ Len(meanCS) = currT
           /\ Len(sdCS) = currT
           /\ Len(rangeCS) = currT
           /\ dbhPc # "ValueError"
           /\ Len(SavedTable) = currT
           /\ dbhPc = "done" => Len(dbhRet) = currT

\* A scan of three rows has flushed twice, once for a tree id that was
\* skipped, and the table of three rows has been returned.
C24_Witness ==
    /\ dbhPc = "done"
    /\ Len(dat) = 3
    /\ dat[1].id = 1
    /\ dat[2].id = 3
    /\ currT = 3
    /\ Len(dbhRet) = 3
    /\ Len(meanCS) = 3

\* ---- the clip that leaves no point --------------------------------------

\* The height and hull filters of the running call have left no point.
NoSurvivor ==
    /\ cPlane # None
    /\ cHull # <<>>
    /\ cPc \in {"write", "bounds", "done", "ValueError"}
    /\ cFiltered = <<>>

\* The file at output_path as it was when the running call began.
FileBeforeCall == IF cRun = 1 THEN None ELSE <<cFirst>>

\* C25 (as claimed): when no point survives the height and hull filters,
\* process_with_normal_plane returns no result, and the error that ends it
\* comes only after an empty output file has been written.
C25_ErrorAfterEmptyFile ==
    (NoSurvivor /\ cPc = "ValueError") => (cRet = None /\ cFile = <<(<<>>)>>)

\* C25 (amended): when no point survives the height and hull filters,
\* process_with_normal_plane returns no result: writeLas raises ValueError
\* before it opens the output file, so the file at output_path is left as it
\* was (none is written) and the bounds are never computed.
C25_ErrorBeforeFile ==
    NoSurvivor =>
        /\ cPc \in {"write", "ValueError"}
        /\ cRet = None
        /\ cFile = FileBeforeCall

\* A first call on a cloud with points has ended in the error with no file.
C25_Witness ==
    /\ NoSurvivor
    /\ cPc = "ValueError"
    /\ cRun = 1
    /\ cIn # <<>>
    /\ cFile = None

====
